---- MODULE Spec2Model ----
(***************************************************************************)
(* A model of the FLUX adapter (src/src/flux_adapter.py) and of the two    *)
(* MCP tools that call it (src/src/main.py).                               *)
(*                                                                         *)
(* Strings whose characters the code inspects (image references, data      *)
(* URLs) are sequences of one-character strings; all other strings are     *)
(* TLA+ strings.  Time is counted in ticks of half a second, the period of *)
(* the poll loop's sleep.                                                  *)
(***************************************************************************)
EXTENDS Integers, Sequences, FiniteSets, TLC

(***************************************************************************)
(* Bounds of the model.                                                    *)
(***************************************************************************)
\* Largest retry budget (max_post_retries) an adapter is constructed with.
MaxRetries == 3
\* Largest poll budget (poll_timeout), in seconds.
MaxPollTimeout == 2
\* Longest time one poll GET may take, in ticks.
MaxGetTicks == 1
\* Number of adapter calls the model has room for.
NumCalls == 2

Calls == 1..NumCalls

(***************************************************************************)
(* Character strings.                                                      *)
(***************************************************************************)
StrData    == <<"d", "a", "t", "a", ":">>
StrHttp    == <<"h", "t", "t", "p", ":", "/", "/">>
StrHttps   == <<"h", "t", "t", "p", "s", ":", "/", "/">>
StrBase64  == <<";", "b", "a", "s", "e", "6", "4", ",">>
StrImage   == <<"i", "m", "a", "g", "e", "/">>
StrPng     == <<"p", "n", "g">>
StrJpeg    == <<"j", "p", "e", "g">>

\* str.startswith(prefix)
StartsWith(s, prefix) ==
    /\ Len(s) >= Len(prefix)
    /\ SubSeq(s, 1, Len(prefix)) = prefix

\* str.lower(), on the letters the model's references use
LowerChar(ch) ==
    CASE ch = "A" -> "a" [] ch = "G" -> "g" [] ch = "H" -> "h"
      [] ch = "J" -> "j" [] ch = "N" -> "n" [] ch = "P" -> "p"
      [] ch = "T" -> "t" [] OTHER -> ch

Lower(s) == [i \in 1..Len(s) |-> LowerChar(s[i])]

\* str.rfind(ch), 1-based; 0 when ch does not occur
RFind(s, ch) ==
    LET hits == {i \in 1..Len(s) : s[i] = ch}
    IN  IF hits = {} THEN 0 ELSE CHOOSE i \in hits : \A j \in hits : j <= i

\* str.lstrip(ch)
RECURSIVE LStrip(_, _)
LStrip(s, ch) ==
    IF s # <<>> /\ Head(s) = ch THEN LStrip(Tail(s), ch) ELSE s

\* pathlib: the final component of a path
PathName(p) == SubSeq(p, RFind(p, "/") + 1, Len(p))

\* pathlib: PurePath.suffix, the last dot of the name and what follows it,
\* unless that dot is the name's first or last character
PathSuffix(p) ==
    LET name == PathName(p)
        i    == RFind(name, ".")
    IN  IF 1 < i /\ i < Len(name) THEN SubSeq(name, i, Len(name)) ELSE <<>>

(***************************************************************************)
(* base64.b64encode: three bytes become four characters of the alphabet,   *)
(* a final group of one or two bytes is padded with "=".                   *)
(***************************************************************************)
B64Alphabet ==
    << "A", "B", "C", "D", "E", "F", "G", "H", "I", "J", "K", "L", "M",
       "N", "O", "P", "Q", "R", "S", "T", "U", "V", "W", "X", "Y", "Z",
       "a", "b", "c", "d", "e", "f", "g", "h", "i", "j", "k", "l", "m",
       "n", "o", "p", "q", "r", "s", "t", "u", "v", "w", "x", "y", "z",
       "0", "1", "2", "3", "4", "5", "6", "7", "8", "9", "+", "/" >>

B64Char(n) == B64Alphabet[n + 1]

RECURSIVE B64Encode(_)
B64Encode(bytes) ==
    IF Len(bytes) = 0 THEN <<>>
    ELSE IF Len(bytes) = 1 THEN
        << B64Char(bytes[1] \div 4),
           B64Char((bytes[1] % 4) * 16),
           "=", "=" >>
    ELSE IF Len(bytes) = 2 THEN
        << B64Char(bytes[1] \div 4),
           B64Char((bytes[1] % 4) * 16 + bytes[2] \div 16),
           B64Char((bytes[2] % 16) * 4),
           "=" >>
    ELSE
        << B64Char(bytes[1] \div 4),
           B64Char((bytes[1] % 4) * 16 + bytes[2] \div 16),
           B64Char((bytes[2] % 16) * 4 + bytes[3] \div 64),
           B64Char(bytes[3] % 64) >>
        \o B64Encode(SubSeq(bytes, 4, Len(bytes)))

\* f"data:{mime};base64,{data}"
\* the encoded bytes behind their type, without the data: scheme
DataUrlWithoutScheme(mime, bytes) == mime \o StrBase64 \o B64Encode(bytes)

DataUrl(mime, bytes) == StrData \o mime \o StrBase64 \o B64Encode(bytes)

(***************************************************************************)
(* The local file system: the paths that are regular files, each with its  *)
(* bytes.                                                                  *)
(***************************************************************************)
IsFile(fs, p) == p \in DOMAIN fs

\* FluxAdapter._to_data_url_if_needed with a missing default extension
ToDataUrlNoDefaultExt(fs, path_or_url) ==
    IF \/ StartsWith(path_or_url, StrData)
       \/ StartsWith(path_or_url, StrHttp)
       \/ StartsWith(path_or_url, StrHttps)
    THEN path_or_url
    ELSE IF ~IsFile(fs, path_or_url) THEN path_or_url
    ELSE LET ext  == LStrip(Lower(PathSuffix(path_or_url)), ".")
             mime == StrImage \o ext
         IN  DataUrl(mime, fs[path_or_url])

\* FluxAdapter._to_data_url_if_needed
ToDataUrlIfNeeded(fs, path_or_url) ==
    IF \/ StartsWith(path_or_url, StrData)
       \/ StartsWith(path_or_url, StrHttp)
       \/ StartsWith(path_or_url, StrHttps)
    THEN path_or_url
    ELSE IF ~IsFile(fs, path_or_url) THEN path_or_url
    ELSE LET stripped == LStrip(Lower(PathSuffix(path_or_url)), ".")
             ext      == IF stripped = <<>> THEN StrPng ELSE stripped
             mime     == IF ext = StrPng THEN StrImage \o StrPng
                         ELSE StrImage \o ext
         IN  DataUrl(mime, fs[path_or_url])

(***************************************************************************)
(* Values.                                                                 *)
(***************************************************************************)
\* Optional[T]: None is the empty tuple, a value v is <<v>>.
None == <<>>
Some(v) == <<v>>

\* dict.get(key, default)
Get(d, key, default) == IF key \in DOMAIN d THEN d[key] ELSE default

\* "https://x/y.jpg", "photo.png", "notes"
RefHttps == StrHttps \o <<"x", "/", "y", ".", "j", "p", "g">>
RefPhoto == <<"p", "h", "o", "t", "o", ".", "p", "n", "g">>
RefNotes == <<"n", "o", "t", "e", "s">>
\* an inline image, already a data URL
RefInline == DataUrl(StrImage \o StrPng, <<137, 80>>)

\* the bytes of image files, local and remote
TenBytes == <<137, 80, 78, 71, 13, 10, 26, 10, 0, 255>>
ImageBytes == {<<>>, <<255>>, <<255, 216>>, <<255, 216, 255>>, TenBytes}

\* the file system the adapter calls run on: photo.png is a 10-byte file
DefaultDisk == [p \in {RefPhoto} |-> TenBytes]

\* identifiers the remote service gives to jobs, and the sample of a job
JobIds == {"job-a", "job-b"}
SampleOf(id) == <<"https://cdn/", id>>

DefaultBaseUrl == "https://api.bfl.ai"
DefaultPollingUrl(base_url) == <<base_url, "/v1/get_result">>
\* the polling URL the remote service names for a job
RemotePollingUrl(id) == <<"https://poll/", id>>

\* FluxAdapter.__init__ defaults
DefaultMaxPostRetries == 3
DefaultWidth == 1024
DefaultHeight == 1024
DefaultSafetyTolerance == 6
\* poll_timeout defaults to 180 s; the model scales it to its largest budget
DefaultPollTimeout == MaxPollTimeout

\* The poll loop sleeps 0.5 s, one tick, and compares elapsed seconds with
\* max_wait: ticks with 2 * max_wait.
TicksPerSecond == 2
PollSleepTicks == 1

(***************************************************************************)
(* State.  Every variable but disk, norm_in and norm_out is a function of  *)
(* the call: the locals of one generate or edit_image call, what it sent,  *)
(* and what it returned.                                                   *)
(***************************************************************************)
VARIABLES
    pc,           \* where the call is
    entry,        \* how it was entered: a tool of main.py or the adapter
    cfg,          \* the configuration of the call's adapter
    args,         \* the call's arguments
    payload,      \* the JSON payload of the submission
    endpoint,     \* the URL the payload is posted to
    attempt,      \* _post_with_retries: the loop variable
    last_exc,     \* _post_with_retries: the last failure
    posts,        \* the submission POSTs issued: "ok" or "fail" for each
    last_post,    \* how the latest submission POST failed, if it did
    sleeps,       \* the backoff sleeps taken, in seconds times two
    resp,         \* the response of the successful POST
    request_id,   \* data["id"]
    polling_url,  \* the URL polled
    clock,        \* _poll_for_result: ticks since start
    gets,         \* the poll GETs issued: the <<url, id>> of each
    poll_fails,   \* number of poll GETs that failed
    result,       \* _poll_for_result: the JSON of the last poll
    fetches,      \* edit_image: what each download GET came back with
    outcome,      \* what the adapter call returned or raised
    response,     \* what the tool returned
    disk,         \* the local file system
    norm_in,      \* an image reference
    norm_out      \* its normalization

callVars == <<pc, entry, cfg, args, payload, endpoint, attempt, last_exc,
              posts, last_post, sleeps, resp, request_id, polling_url, clock,
              gets, poll_fails, result, fetches, outcome, response>>
normVars == <<disk, norm_in, norm_out>>
vars == <<callVars, normVars>>

NoOutcome == [kind |-> "none"]
NoResponse == [status |-> "none"]
NoPayload == [none |-> TRUE]
NoResp == [kind |-> "none"]
NoResult == [none |-> TRUE]
NoCfg == [none |-> TRUE]
NoArgs == [none |-> TRUE]

Raise(type, text, detail) ==
    [kind |-> "raise", type |-> type, text |-> text, detail |-> detail]
Return(sample, meta) ==
    [kind |-> "return", sample |-> sample, meta |-> meta]

(***************************************************************************)
(* Inputs: what callers pass and what the remote service answers.          *)
(***************************************************************************)
Prompts == {"a simple red circle"}
OptAspects == {None, Some(""), Some("1:1")}
OptGuidance == {None, Some(0)}
OptSeeds == {None, Some(0)}
OutputFormats == {"jpeg", "png"}
\* generate's input_image: absent, empty, a URL, an existing file, no file
OptInputImages == {None, Some(<<>>), Some(RefHttps), Some(RefPhoto)}
\* edit_image's image_url: empty, inline data, a remote URL
EditImageUrls == {<<>>, RefInline, RefHttps}

\* the budgets an adapter is constructed with by a direct caller
RetryBudgets == 0..MaxRetries
PollTimeouts == (0 - 1)..MaxPollTimeout

\* a request that fails: requests' exceptions.  HTTPError is what
\* raise_for_status raises for a 4xx or 5xx response.
ExcReadTimeout == [type |-> "ReadTimeout", status |-> 0]
ExcConnection == [type |-> "ConnectionError", status |-> 0]
ExcHttp(class) == [type |-> "HTTPError", status |-> class]
RequestFailures == {ExcReadTimeout, ExcConnection, ExcHttp(400), ExcHttp(500)}
\* requests.exceptions.Timeout covers ReadTimeout and ConnectTimeout
IsRequestException(e) == e \in RequestFailures

\* what a submission POST may come back with: a failure, or a 2xx response
\* whose body is not JSON, lacks the id, or names the job
NotJson == [not_json |-> TRUE]
SubmissionBodies ==
    {NotJson, [detail |-> "queued"]}
    \cup {[id |-> j] : j \in JobIds}
    \cup {[id |-> j, polling_url |-> RemotePollingUrl(j)] : j \in JobIds}
\* the remote service names jobs apart: the id it gives to a call's job
JobIdOf(c) == IF c = 1 THEN "job-a" ELSE "job-b"

PostOutcomes ==
    {[kind |-> "fail", exc |-> e] : e \in RequestFailures}
    \cup {[kind |-> "ok", body |-> b] : b \in SubmissionBodies}

\* what a submission POST of call c may come back with
PostOutcomesOf(c) ==
    {o \in PostOutcomes :
        (o.kind = "ok" /\ "id" \in DOMAIN o.body) => o.body.id = JobIdOf(c)}

\* what a poll GET for job id may come back with
PollBodies(id) ==
    { [id |-> id],
      [status |-> "Pending"],
      [status |-> "Pending", result |-> [sample |-> SampleOf(id)]],
      [status |-> "Request Moderated"],
      [status |-> "Ready", result |-> [sample |-> SampleOf(id), seed |-> 1]],
      [status |-> "Ready", result |-> [sample |-> <<>>]],
      [status |-> "Ready", result |-> [seed |-> 1]],
      [status |-> "Ready"],
      [status |-> "Error"],
      [status |-> "Failed", result |-> [sample |-> SampleOf(id), seed |-> 1]] }
PollOutcomes(id) ==
    {[kind |-> "fail", exc |-> e] : e \in RequestFailures}
    \cup {[kind |-> "ok", body |-> b] : b \in PollBodies(id)}

\* what the download GET of edit_image may come back with
DownloadOutcomes ==
    {[kind |-> "fail", exc |-> e] : e \in RequestFailures}
    \cup {[kind |-> "ok", content |-> b, headers |-> h] :
            b \in {<<255, 216>>, TenBytes},
            h \in {[server |-> "cdn"], [content_type |-> StrImage \o StrPng]}}

(***************************************************************************)
(* FluxAdapter.__init__                                                    *)
(***************************************************************************)
NewAdapter(model, aspect_ratio, poll_timeout, max_post_retries) ==
    [ base_url          |-> DefaultBaseUrl,
      model             |-> model,
      use_raw_mode      |-> FALSE,
      aspect_ratio      |-> aspect_ratio,
      width             |-> DefaultWidth,
      height            |-> DefaultHeight,
      safety_tolerance  |-> DefaultSafetyTolerance,
      prompt_upsampling |-> FALSE,
      poll_timeout      |-> poll_timeout,
      max_post_retries  |-> max_post_retries ]

\* Python truthiness of an Optional[str]: of a plain string, of a
\* character string
Truthy(opt) == opt # None /\ opt[1] # ""
TruthyRef(opt) == opt # None /\ opt[1] # <<>>

Init ==
    /\ pc = [c \in Calls |-> IF c = 1 THEN "idle" ELSE "unused"]
    /\ entry = [c \in Calls |-> "none"]
    /\ cfg = [c \in Calls |-> NoCfg]
    /\ args = [c \in Calls |-> NoArgs]
    /\ payload = [c \in Calls |-> NoPayload]
    /\ endpoint = [c \in Calls |-> <<>>]
    /\ attempt = [c \in Calls |-> 0]
    /\ last_exc = [c \in Calls |-> None]
    /\ posts = [c \in Calls |-> <<>>]
    /\ last_post = [c \in Calls |-> None]
    /\ sleeps = [c \in Calls |-> <<>>]
    /\ resp = [c \in Calls |-> NoResp]
    /\ request_id = [c \in Calls |-> None]
    /\ polling_url = [c \in Calls |-> None]
    /\ clock = [c \in Calls |-> 0]
    /\ gets = [c \in Calls |-> <<>>]
    /\ poll_fails = [c \in Calls |-> 0]
    /\ result = [c \in Calls |-> NoResult]
    /\ fetches = [c \in Calls |-> <<>>]
    /\ outcome = [c \in Calls |-> NoOutcome]
    /\ response = [c \in Calls |-> NoResponse]
    /\ disk = DefaultDisk
    /\ norm_in = <<>>
    /\ norm_out = <<>>

(***************************************************************************)
(* Entering a call.                                                        *)
(***************************************************************************)
Enter(c, how, adapter, arguments, next) ==
    /\ entry' = [entry EXCEPT ![c] = how]
    /\ cfg' = [cfg EXCEPT ![c] = adapter]
    /\ args' = [args EXCEPT ![c] = arguments]
    /\ pc' = [pc EXCEPT ![c] = next]

GenerateArgs(prompt, input_image, guidance_scale) ==
    [ prompt_text    |-> prompt,
      input_image    |-> input_image,
      guidance_scale |-> guidance_scale ]

EditArgs(prompt, image_url, aspect_ratio, seed, output_format) ==
    [ prompt_text   |-> prompt,
      image_url     |-> image_url,
      aspect_ratio  |-> aspect_ratio,
      seed          |-> seed,
      output_format |-> output_format ]

ErrorResponse(message) == [status |-> "error", message |-> message]

\* main.py flux_generate, up to the adapter call: without an API key it
\* returns an error at once, else it constructs its adapter and awaits
\* adapter.generate(prompt).
FluxGenerate(c) ==
    /\ pc[c] = "idle"
    /\ \E key \in BOOLEAN, prompt \in Prompts :
        IF ~key
        THEN /\ response' = [response EXCEPT
                    ![c] = ErrorResponse("BFL_API_KEY not set")]
             /\ Enter(c, "flux_generate", NoCfg, NoArgs, "done")
        ELSE /\ Enter(c, "flux_generate",
                      NewAdapter("flux-kontext-max", Some("16:9"),
                                 DefaultPollTimeout, DefaultMaxPostRetries),
                      GenerateArgs(prompt, None, None), "generate")
             /\ UNCHANGED response
    /\ UNCHANGED <<payload, endpoint, attempt, last_exc, posts, last_post,
                   sleeps, resp, request_id, polling_url, clock, gets,
                   poll_fails, result, fetches, outcome, normVars>>

\* main.py flux_edit_image, up to the adapter call: without an API key or
\* with an empty image_url it returns an error at once.
FluxEditImage(c) ==
    /\ pc[c] = "idle"
    /\ \E key \in BOOLEAN, prompt \in Prompts, image_url \in EditImageUrls,
          aspect_ratio \in OptAspects, seed \in OptSeeds,
          output_format \in OutputFormats :
        IF ~key
        THEN /\ response' = [response EXCEPT
                    ![c] = ErrorResponse("BFL_API_KEY not set")]
             /\ Enter(c, "flux_edit_image", NoCfg,
                      EditArgs(prompt, image_url, aspect_ratio, seed,
                               output_format), "done")
        ELSE IF image_url = <<>>
        THEN /\ response' = [response EXCEPT
                    ![c] = ErrorResponse("image_url is required")]
             /\ Enter(c, "flux_edit_image", NoCfg,
                      EditArgs(prompt, image_url, aspect_ratio, seed,
                               output_format), "done")
        ELSE /\ Enter(c, "flux_edit_image",
                      NewAdapter("flux-kontext-max", aspect_ratio,
                                 DefaultPollTimeout, DefaultMaxPostRetries),
                      EditArgs(prompt, image_url, aspect_ratio, seed,
                               output_format), "edit")
             /\ UNCHANGED response
    /\ UNCHANGED <<payload, endpoint, attempt, last_exc, posts, last_post,
                   sleeps, resp, request_id, polling_url, clock, gets,
                   poll_fails, result, fetches, outcome, normVars>>

\* A caller of the adapter itself (tests/image_generation.py): it constructs
\* a FluxAdapter, which raises without an API key, and awaits generate.
AdapterGenerate(c) ==
    /\ pc[c] = "idle"
    /\ \E key \in BOOLEAN, prompt \in Prompts, aspect_ratio \in OptAspects,
          poll_timeout \in PollTimeouts, max_post_retries \in RetryBudgets,
          input_image \in OptInputImages, guidance_scale \in OptGuidance :
        IF ~key
        THEN /\ outcome' = [outcome EXCEPT
                    ![c] = Raise("ValueError", "BFL_API_KEY not set", None)]
             /\ Enter(c, "generate", NoCfg, NoArgs, "finish")
        ELSE /\ Enter(c, "generate",
                      NewAdapter("flux-dev", aspect_ratio, poll_timeout,
                                 max_post_retries),
                      GenerateArgs(prompt, input_image, guidance_scale),
                      "generate")
             /\ UNCHANGED outcome
    /\ UNCHANGED <<payload, endpoint, attempt, last_exc, posts, last_post,
                   sleeps, resp, request_id, polling_url, clock, gets,
                   poll_fails, result, fetches, response, normVars>>

\* A caller of the adapter itself awaiting edit_image.
AdapterEditImage(c) ==
    /\ pc[c] = "idle"
    /\ \E key \in BOOLEAN, prompt \in Prompts, adapter_aspect \in OptAspects,
          poll_timeout \in PollTimeouts, max_post_retries \in RetryBudgets,
          image_url \in EditImageUrls, aspect_ratio \in OptAspects,
          seed \in OptSeeds, output_format \in OutputFormats :
        IF ~key
        THEN /\ outcome' = [outcome EXCEPT
                    ![c] = Raise("ValueError", "BFL_API_KEY not set", None)]
             /\ Enter(c, "edit_image", NoCfg, NoArgs, "finish")
        ELSE /\ Enter(c, "edit_image",
                      NewAdapter("flux-dev", adapter_aspect, poll_timeout,
                                 max_post_retries),
                      EditArgs(prompt, image_url, aspect_ratio, seed,
                               output_format), "edit")
             /\ UNCHANGED outcome
    /\ UNCHANGED <<payload, endpoint, attempt, last_exc, posts, last_post,
                   sleeps, resp, request_id, polling_url, clock, gets,
                   poll_fails, result, fetches, response, normVars>>

(***************************************************************************)
(* _generate_sync and _edit_image_sync: building the payload.              *)
(***************************************************************************)
\* _generate_sync's payload with width and height always in it
GeneratePayloadAlwaysSized(a, x, fs) ==
    LET base == [ prompt            |-> x.prompt_text,
                  safety_tolerance  |-> a.safety_tolerance,
                  prompt_upsampling |-> a.prompt_upsampling,
                  raw               |-> a.use_raw_mode,
                  width             |-> a.width,
                  height            |-> a.height ]
        guidance == IF x.guidance_scale # None
                    THEN ("guidance_scale" :> x.guidance_scale[1]) ELSE <<>>
        image == IF TruthyRef(x.input_image)
                 THEN ("input_image" :> ToDataUrlIfNeeded(fs, x.input_image[1]))
                 ELSE <<>>
        size == IF Truthy(a.aspect_ratio)
                THEN ("aspect_ratio" :> a.aspect_ratio[1]) ELSE <<>>
    IN  base @@ guidance @@ image @@ size

\* _generate_sync, the payload
GeneratePayload(a, x, fs) ==
    LET base == [ prompt            |-> x.prompt_text,
                  safety_tolerance  |-> a.safety_tolerance,
                  prompt_upsampling |-> a.prompt_upsampling,
                  raw               |-> a.use_raw_mode ]
        guidance == IF x.guidance_scale # None
                    THEN ("guidance_scale" :> x.guidance_scale[1]) ELSE <<>>
        image == IF TruthyRef(x.input_image)
                 THEN ("input_image" :> ToDataUrlIfNeeded(fs, x.input_image[1]))
                 ELSE <<>>
        size == IF Truthy(a.aspect_ratio)
                THEN ("aspect_ratio" :> a.aspect_ratio[1])
                ELSE ("width" :> a.width) @@ ("height" :> a.height)
    IN  base @@ guidance @@ image @@ size

\* _edit_image_sync's payload without the safety tolerance
EditPayloadNoSafety(a, x, input_image_b64) ==
    LET base == [ prompt            |-> x.prompt_text,
                  input_image       |-> input_image_b64,
                  prompt_upsampling |-> a.prompt_upsampling,
                  output_format     |-> x.output_format ]
        aspect == IF Truthy(x.aspect_ratio)
                  THEN ("aspect_ratio" :> x.aspect_ratio[1])
                  ELSE IF Truthy(a.aspect_ratio)
                  THEN ("aspect_ratio" :> a.aspect_ratio[1])
                  ELSE <<>>
        seed == IF x.seed # None THEN ("seed" :> x.seed[1]) ELSE <<>>
    IN  base @@ aspect @@ seed

\* _edit_image_sync's payload with "if seed:" for "if seed is not None:"
EditPayloadTruthySeed(a, x, input_image_b64) ==
    LET base == [ prompt            |-> x.prompt_text,
                  input_image       |-> input_image_b64,
                  safety_tolerance  |-> a.safety_tolerance,
                  prompt_upsampling |-> a.prompt_upsampling,
                  output_format     |-> x.output_format ]
        aspect == IF Truthy(x.aspect_ratio)
                  THEN ("aspect_ratio" :> x.aspect_ratio[1])
                  ELSE IF Truthy(a.aspect_ratio)
                  THEN ("aspect_ratio" :> a.aspect_ratio[1])
                  ELSE <<>>
        seed == IF x.seed # None /\ x.seed[1] # 0
                THEN ("seed" :> x.seed[1]) ELSE <<>>
    IN  base @@ aspect @@ seed

\* _edit_image_sync, the payload
EditPayload(a, x, input_image_b64) ==
    LET base == [ prompt            |-> x.prompt_text,
                  input_image       |-> input_image_b64,
                  safety_tolerance  |-> a.safety_tolerance,
                  prompt_upsampling |-> a.prompt_upsampling,
                  output_format     |-> x.output_format ]
        aspect == IF Truthy(x.aspect_ratio)
                  THEN ("aspect_ratio" :> x.aspect_ratio[1])
                  ELSE IF Truthy(a.aspect_ratio)
                  THEN ("aspect_ratio" :> a.aspect_ratio[1])
                  ELSE <<>>
        seed == IF x.seed # None THEN ("seed" :> x.seed[1]) ELSE <<>>
    IN  base @@ aspect @@ seed

GenerateEndpoint(a) == <<a.base_url, "/v1/", a.model>>
EditEndpoint(a) == <<a.base_url, "/v1/", "flux-kontext-pro">>

\* _generate_sync up to the submission: the payload and the endpoint
GenerateBuild(c) ==
    /\ pc[c] = "generate"
    /\ payload' = [payload EXCEPT ![c] = GeneratePayload(cfg[c], args[c], disk)]
    /\ endpoint' = [endpoint EXCEPT ![c] = GenerateEndpoint(cfg[c])]
    /\ pc' = [pc EXCEPT ![c] = "post"]
    /\ UNCHANGED <<entry, cfg, args, attempt, last_exc, posts, last_post,
                   sleeps, resp, request_id, polling_url, clock, gets,
                   poll_fails, result, fetches, outcome, response, normVars>>

\* session.get(image_url) that fetches whatever it is given
DownloadAnyReference(url) == DownloadOutcomes

\* session.get(image_url) and raise_for_status: a URL without an http
\* scheme is refused before any request is sent
ExcMissingSchema == [type |-> "MissingSchema", status |-> 0]
Download(url) ==
    IF StartsWith(url, StrHttp) \/ StartsWith(url, StrHttps)
    THEN DownloadOutcomes
    ELSE {[kind |-> "fail", exc |-> ExcMissingSchema]}

\* the content type of the download with image/png for a default
DownloadMimeDefaultPng(headers) ==
    Get(headers, "content_type", StrImage \o StrPng)

\* the content type edit_image gives the downloaded image
DownloadMime(headers) == Get(headers, "content_type", StrImage \o StrJpeg)

\* the payload and the endpoint of an edit whose image is at hand
EditSubmit(c, input_image_b64) ==
    /\ payload' = [payload EXCEPT
           ![c] = EditPayload(cfg[c], args[c], input_image_b64)]
    /\ endpoint' = [endpoint EXCEPT ![c] = EditEndpoint(cfg[c])]
    /\ pc' = [pc EXCEPT ![c] = "post"]
    /\ UNCHANGED outcome

\* a failed download that falls back to submitting the reference itself
FetchFailureSubmitsReference(c, cause) ==
    EditSubmit(c, args[c].image_url)

\* except Exception as e: raise ValueError("Failed to process input
\* image: ...")
FetchFailure(c, cause) ==
    /\ outcome' = [outcome EXCEPT
           ![c] = Raise("ValueError", "Failed to process input image", cause)]
    /\ pc' = [pc EXCEPT ![c] = "finish"]
    /\ UNCHANGED <<payload, endpoint>>

\* _edit_image_sync up to the submission: a data URL is taken as it is, any
\* other source is fetched with one session.get (which fails without a
\* request for a URL that has no http scheme) and encoded; any failure is
\* raised as a ValueError.  Then the payload and the endpoint.
EditPrepare(c) ==
    /\ pc[c] = "edit"
    /\ LET url == args[c].image_url
       IN  IF StartsWith(url, StrData)
           THEN EditSubmit(c, url) /\ UNCHANGED fetches
           ELSE \E got \in Download(url) :
                  /\ fetches' = [fetches EXCEPT ![c] = Append(@, got)]
                  /\ IF got.kind = "fail"
                     THEN FetchFailure(c, got.exc)
                     ELSE EditSubmit(c, DataUrl(DownloadMime(got.headers),
                                                got.content))
    /\ UNCHANGED <<entry, cfg, args, attempt, last_exc, posts, last_post,
                   sleeps, resp, request_id, polling_url, clock, gets,
                   poll_fails, result, response, normVars>>

(***************************************************************************)
(* _post_with_retries                                                      *)
(***************************************************************************)
\* What the call still reads of its arguments once the payload is built and
\* submitted: edit_image's image_url, for the metadata.
LiveArgs(c) ==
    IF "image_url" \in DOMAIN args[c]
    THEN [image_url |-> args[c].image_url] ELSE NoArgs

\* the call ends, with what it returns or raises
Fail(c, exc) ==
    /\ outcome' = [outcome EXCEPT ![c] = exc]
    /\ pc' = [pc EXCEPT ![c] = "finish"]

\* time.sleep(1.5 * attempt), in ticks
BackoffTicksFromZero(n) == 3 * n

\* time.sleep(1.5 * (attempt + 1)), in ticks
BackoffTicks(n) == 3 * (n + 1)

\* for attempt in range(self.max_post_retries), tested one pass too late
MoreAttemptsOffByOne(c) == attempt[c] <= cfg[c].max_post_retries

\* for attempt in range(self.max_post_retries): there is another pass
MoreAttempts(c) == attempt[c] < cfg[c].max_post_retries

\* One pass of the loop body that does not return the 2xx response: it
\* keeps the response and goes on to the next pass.
PostAttemptNoReturn(c) ==
    /\ pc[c] = "post"
    /\ MoreAttempts(c)
    /\ \E got \in PostOutcomesOf(c) :
        /\ posts' = [posts EXCEPT ![c] = Append(@, got.kind)]
        /\ last_post' = [last_post EXCEPT
               ![c] = IF got.kind = "ok" THEN None ELSE Some(got.exc)]
        /\ IF got.kind = "ok"
           THEN /\ resp' = [resp EXCEPT ![c] = got]
                /\ attempt' = [attempt EXCEPT ![c] = @ + 1]
                /\ pc' = [pc EXCEPT ![c] = "post"]
                /\ UNCHANGED <<last_exc, payload, args>>
           ELSE /\ last_exc' = [last_exc EXCEPT ![c] = Some(got.exc)]
                /\ pc' = [pc EXCEPT ![c] = "backoff"]
                /\ UNCHANGED <<resp, attempt, payload, args>>
    /\ UNCHANGED <<entry, cfg, endpoint, sleeps, request_id, polling_url,
                   clock, gets, poll_fails, result, fetches, outcome,
                   response, normVars>>

\* One pass of the loop body: a POST; a 2xx response is returned, a failure
\* is kept in last_exc and followed by the backoff sleep.  On return the
\* function's locals are gone, and the payload, which is not read again.
PostAttempt(c) ==
    /\ pc[c] = "post"
    /\ MoreAttempts(c)
    /\ \E got \in PostOutcomesOf(c) :
        /\ posts' = [posts EXCEPT ![c] = Append(@, got.kind)]
        /\ last_post' = [last_post EXCEPT
               ![c] = IF got.kind = "ok" THEN None ELSE Some(got.exc)]
        /\ IF got.kind = "ok"
           THEN /\ resp' = [resp EXCEPT ![c] = got]
                /\ attempt' = [attempt EXCEPT ![c] = 0]
                /\ last_exc' = [last_exc EXCEPT ![c] = None]
                /\ payload' = [payload EXCEPT ![c] = NoPayload]
                /\ args' = [args EXCEPT ![c] = LiveArgs(c)]
                /\ pc' = [pc EXCEPT ![c] = "parse"]
           ELSE /\ last_exc' = [last_exc EXCEPT ![c] = Some(got.exc)]
                /\ pc' = [pc EXCEPT ![c] = "backoff"]
                /\ UNCHANGED <<resp, attempt, payload, args>>
    /\ UNCHANGED <<entry, cfg, endpoint, sleeps, request_id, polling_url,
                   clock, gets, poll_fails, result, fetches, outcome,
                   response, normVars>>

\* time.sleep(1.5 * (attempt + 1)), then the next pass
PostBackoff(c) ==
    /\ pc[c] = "backoff"
    /\ sleeps' = [sleeps EXCEPT ![c] = Append(@, BackoffTicks(attempt[c]))]
    /\ attempt' = [attempt EXCEPT ![c] = @ + 1]
    /\ pc' = [pc EXCEPT ![c] = "post"]
    /\ UNCHANGED <<entry, cfg, args, payload, endpoint, last_exc, posts,
                   last_post, resp, request_id, polling_url, clock, gets,
                   poll_fails, result, fetches, outcome, response, normVars>>

\* The loop is over: assert last_exc is not None; raise last_exc
PostGiveUp(c) ==
    /\ pc[c] = "post"
    /\ ~MoreAttempts(c)
    /\ IF last_exc[c] = None
       THEN Fail(c, Raise("AssertionError", "", None))
       ELSE Fail(c, Raise(last_exc[c][1].type, "submission failed",
                          last_exc[c][1]))
    /\ attempt' = [attempt EXCEPT ![c] = 0]
    /\ last_exc' = [last_exc EXCEPT ![c] = None]
    /\ payload' = [payload EXCEPT ![c] = NoPayload]
    /\ args' = [args EXCEPT ![c] = LiveArgs(c)]
    /\ UNCHANGED <<entry, cfg, endpoint, posts, last_post, sleeps, resp,
                   request_id, polling_url, clock, gets, poll_fails, result,
                   fetches, response, normVars>>

(***************************************************************************)
(* _generate_sync and _edit_image_sync: reading the submission's response. *)
(***************************************************************************)
\* the default polling URL whatever the response says
PollingUrlAlwaysDefault(data, base_url) == DefaultPollingUrl(base_url)

\* data.get("polling_url", f"{self.base_url}/v1/get_result")
PollingUrlOf(data, base_url) ==
    Get(data, "polling_url", DefaultPollingUrl(base_url))

\* a response that cannot be read sends the call back to the submission
ProtocolFailureResubmits(c, exc) ==
    /\ pc' = [pc EXCEPT ![c] = "post"]
    /\ UNCHANGED <<outcome, request_id, polling_url>>

\* resp.json() or data["id"] raises, and nothing catches it
ProtocolFailure(c, exc) ==
    /\ Fail(c, exc)
    /\ UNCHANGED <<request_id, polling_url>>

\* data = resp.json(); request_id = data["id"]; polling_url = data.get(...);
\* then _poll_for_result starts its clock.
ParseSubmission(c) ==
    /\ pc[c] = "parse"
    /\ LET data == resp[c].body
       IN  IF data = NotJson
           THEN ProtocolFailure(c, Raise("JSONDecodeError", "", None))
           ELSE IF "id" \notin DOMAIN data
           THEN ProtocolFailure(c, Raise("KeyError", "id", None))
           ELSE /\ request_id' = [request_id EXCEPT ![c] = Some(data.id)]
                /\ polling_url' = [polling_url EXCEPT
                       ![c] = Some(PollingUrlOf(data, cfg[c].base_url))]
                /\ pc' = [pc EXCEPT ![c] = "poll"]
                /\ UNCHANGED outcome
    /\ clock' = [clock EXCEPT ![c] = 0]
    /\ UNCHANGED <<entry, cfg, args, payload, endpoint, attempt, last_exc,
                   posts, last_post, sleeps, resp, gets, poll_fails, result,
                   fetches, response, normVars>>

(***************************************************************************)
(* _poll_for_result                                                        *)
(***************************************************************************)
\* a loop that tests its budget only after a first pass
WithinBudgetAfterFirstPass(c) ==
    \/ gets[c] = <<>>
    \/ clock[c] < TicksPerSecond * cfg[c].poll_timeout

\* time.time() - start <= max_wait
WithinBudgetInclusive(c) == clock[c] <= TicksPerSecond * cfg[c].poll_timeout

\* time.time() - start < max_wait, in ticks
WithinBudget(c) == clock[c] < TicksPerSecond * cfg[c].poll_timeout

\* the loop's test holds: time.sleep(0.5)
PollSleep(c) ==
    /\ pc[c] = "poll"
    /\ WithinBudget(c)
    /\ clock' = [clock EXCEPT ![c] = @ + PollSleepTicks]
    /\ pc' = [pc EXCEPT ![c] = "poll_get"]
    /\ UNCHANGED <<entry, cfg, args, payload, endpoint, attempt, last_exc,
                   posts, last_post, sleeps, resp, request_id, polling_url,
                   gets, poll_fails, result, fetches, outcome, response,
                   normVars>>

\* the loop's test fails: raise TimeoutError naming the request and max_wait
PollTimeout(c) ==
    /\ pc[c] = "poll"
    /\ ~WithinBudget(c)
    /\ Fail(c, Raise("TimeoutError", "timed out",
                     <<request_id[c][1], cfg[c].poll_timeout>>))
    /\ UNCHANGED <<entry, cfg, args, payload, endpoint, attempt, last_exc,
                   posts, last_post, sleeps, resp, request_id, polling_url,
                   clock, gets, poll_fails, result, fetches, response,
                   normVars>>

\* a job that is returned while it is pending
IsReadyStatusOrPending(status) == status \in {"Ready", "Pending"}

\* status == "Ready"
IsReadyStatus(status) == status = "Ready"

\* status in ("Error", "Failed"), without "Failed"
IsFailureStatusErrorOnly(status) == status = "Error"

\* status in ("Error", "Failed")
IsFailureStatus(status) == status \in {"Error", "Failed"}

\* a failed GET ends the call
OnPollFailureRaises(c, exc) ==
    /\ Fail(c, Raise(exc.type, "poll failed", exc))
    /\ UNCHANGED result

\* except requests.exceptions.Timeout: continue
\* except requests.RequestException: continue
OnPollFailure(c, exc) ==
    /\ IsRequestException(exc)
    /\ pc' = [pc EXCEPT ![c] = "poll"]
    /\ UNCHANGED <<result, outcome>>

\* the polling URL and job id kept on the adapter, where the call that
\* submitted last has left its own
PollParamsOnAdapter(c) ==
    LET others == {d \in Calls \ {c} : request_id[d] # None}
        d == CHOOSE d \in others : TRUE
    IN  IF others = {} THEN <<polling_url[c][1], request_id[c][1]>>
        ELSE <<polling_url[d][1], request_id[d][1]>>

\* session.get(polling_url, params={"id": request_id}): the arguments of
\* the call's own _poll_for_result
PollParams(c) == <<polling_url[c][1], request_id[c][1]>>

\* One GET of polling_url with params id, taking some time.  A failure is
\* swallowed and the loop goes on with result as it was; else result is the
\* response's JSON: Ready returns it to the caller, Error and Failed raise,
\* any other status goes on.
PollGet(c) ==
    /\ pc[c] = "poll_get"
    /\ gets' = [gets EXCEPT ![c] = Append(@, PollParams(c))]
    /\ \E took \in 0..MaxGetTicks, got \in PollOutcomes(PollParams(c)[2]) :
        /\ clock' = [clock EXCEPT ![c] = @ + took]
        /\ poll_fails' = [poll_fails EXCEPT
               ![c] = IF got.kind = "fail" THEN @ + 1 ELSE @]
        /\ IF got.kind = "fail"
           THEN OnPollFailure(c, got.exc)
           ELSE LET status == Get(got.body, "status", "")
                IN  /\ result' = [result EXCEPT ![c] = got.body]
                    /\ IF IsReadyStatus(status)
                       THEN /\ pc' = [pc EXCEPT ![c] = "unwrap"]
                            /\ UNCHANGED outcome
                       ELSE IF IsFailureStatus(status)
                       THEN Fail(c, Raise("RuntimeError", "Generation failed",
                                          got.body))
                       ELSE /\ pc' = [pc EXCEPT ![c] = "poll"]
                            /\ UNCHANGED outcome
    /\ UNCHANGED <<entry, cfg, args, payload, endpoint, attempt, last_exc,
                   posts, last_post, sleeps, resp, request_id, polling_url,
                   fetches, response, normVars>>

(***************************************************************************)
(* _generate_sync and _edit_image_sync: unwrapping the result.             *)
(***************************************************************************)
\* result.get("result", {})
NestedResult(r) == Get(r, "result", <<>>)

GenerateMeta(c) ==
    [ request_id |-> request_id[c][1],
      model      |-> cfg[c].model,
      result     |-> NestedResult(result[c]) ]

\* the edit's metadata naming the adapter's model, not the one posted to
EditMetaConfiguredModel(c) ==
    [ request_id     |-> request_id[c][1],
      model          |-> cfg[c].model,
      operation      |-> "image_edit",
      original_image |-> args[c].image_url,
      result         |-> NestedResult(result[c]) ]

EditMeta(c) ==
    [ request_id     |-> request_id[c][1],
      model          |-> "flux-kontext-pro",
      operation      |-> "image_edit",
      original_image |-> args[c].image_url,
      result         |-> NestedResult(result[c]) ]

IsEdit(c) == entry[c] \in {"flux_edit_image", "edit_image"}
IsTool(c) == entry[c] \in {"flux_generate", "flux_edit_image"}

\* if sample is None
MissingSampleOnlyNone(sample) == sample = None

\* if not sample
MissingSample(sample) == ~TruthyRef(sample)

\* sample = result.get("result", {}).get("sample"); a missing or empty one
\* raises, else the call returns (sample, meta)
Unwrap(c) ==
    /\ pc[c] = "unwrap"
    /\ LET nested == NestedResult(result[c])
           sample == IF "sample" \in DOMAIN nested
                     THEN Some(nested.sample) ELSE None
       IN  IF MissingSample(sample)
           THEN Fail(c, Raise("RuntimeError", "Missing sample in result",
                              result[c]))
           ELSE Fail(c, Return(sample[1], IF IsEdit(c) THEN EditMeta(c)
                                          ELSE GenerateMeta(c)))
    /\ UNCHANGED <<entry, cfg, args, payload, endpoint, attempt, last_exc,
                   posts, last_post, sleeps, resp, request_id, polling_url,
                   clock, gets, poll_fails, result, fetches, response,
                   normVars>>

(***************************************************************************)
(* The caller gets the call's outcome.                                     *)
(***************************************************************************)
\* main.py flux_generate and flux_edit_image, from the adapter call on:
\* what the call returned becomes a success response, what it raised (any
\* Exception) an error response.
\* the tools without their except clause: what the call raises is not
\* answered
ToolResponseUncaught(c) ==
    IF outcome[c].kind = "return"
    THEN IF entry[c] = "flux_generate"
         THEN [ status |-> "success",
                image  |-> outcome[c].sample,
                meta   |-> outcome[c].meta ]
         ELSE [ status         |-> "success",
                edited_image   |-> outcome[c].sample,
                original_image |-> args[c].image_url,
                meta           |-> outcome[c].meta ]
    ELSE NoResponse

ToolResponse(c) ==
    IF outcome[c].kind = "return"
    THEN IF entry[c] = "flux_generate"
         THEN [ status |-> "success",
                image  |-> outcome[c].sample,
                meta   |-> outcome[c].meta ]
         ELSE [ status         |-> "success",
                edited_image   |-> outcome[c].sample,
                original_image |-> args[c].image_url,
                meta           |-> outcome[c].meta ]
    ELSE ErrorResponse(<<outcome[c].type, outcome[c].text>>)

ToolReturn(c) ==
    /\ pc[c] = "finish"
    /\ IsTool(c)
    /\ response' = [response EXCEPT ![c] = ToolResponse(c)]
    /\ pc' = [pc EXCEPT ![c] = "done"]
    /\ UNCHANGED <<entry, cfg, args, payload, endpoint, attempt, last_exc,
                   posts, last_post, sleeps, resp, request_id, polling_url,
                   clock, gets, poll_fails, result, fetches, outcome,
                   normVars>>

\* the adapter's own caller has what the call returned or raised
AdapterReturn(c) ==
    /\ pc[c] = "finish"
    /\ ~IsTool(c)
    /\ pc' = [pc EXCEPT ![c] = "done"]
    /\ UNCHANGED <<entry, cfg, args, payload, endpoint, attempt, last_exc,
                   posts, last_post, sleeps, resp, request_id, polling_url,
                   clock, gets, poll_fails, result, fetches, outcome,
                   response, normVars>>

CallStep(c) ==
    \/ FluxGenerate(c)
    \/ FluxEditImage(c)
    \/ AdapterGenerate(c)
    \/ AdapterEditImage(c)
    \/ GenerateBuild(c)
    \/ EditPrepare(c)
    \/ PostAttempt(c)
    \/ PostBackoff(c)
    \/ PostGiveUp(c)
    \/ ParseSubmission(c)
    \/ PollSleep(c)
    \/ PollTimeout(c)
    \/ PollGet(c)
    \/ Unwrap(c)
    \/ ToolReturn(c)
    \/ AdapterReturn(c)

Next == \E c \in Calls : CallStep(c)

Spec == Init /\ [][Next]_vars

(***************************************************************************)
(* _to_data_url_if_needed on its own: any reference, on any file system.   *)
(***************************************************************************)
\* how often the normalization is applied in a row
MaxApplications == 2

NormPrefixes ==
    { <<>>, StrData, StrHttp, StrHttps,
      <<"d", "a", "t", "a">>,
      <<"H", "T", "T", "P", ":", "/", "/">>,
      <<"d", "i", "r", "/">>,
      <<"v", "1", ".", "2", "/">> }
NormNames ==
    { <<>>, RefPhoto, RefNotes,
      <<"p", "i", "c", ".", "J", "P", "G">>,
      <<"x", ".", "j", "p", "e", "g">>,
      <<".", "p", "n", "g">>,
      <<"a", ".">>,
      <<"a", ".", "t", "a", "r", ".", "g", "z">> }
NormRefs == {pre \o name : pre \in NormPrefixes, name \in NormNames}

\* the file systems: none of the references is a file, or every reference
\* that names something is a file, with the same bytes
NormDisks ==
    {[p \in {} |-> <<>>]}
    \cup {[p \in {r \in NormRefs : PathName(r) # <<>>} |-> bytes] :
            bytes \in ImageBytes}

NormInit ==
    /\ pc = [c \in Calls |-> "unused"]
    /\ entry = [c \in Calls |-> "none"]
    /\ cfg = [c \in Calls |-> NoCfg]
    /\ args = [c \in Calls |-> NoArgs]
    /\ payload = [c \in Calls |-> NoPayload]
    /\ endpoint = [c \in Calls |-> <<>>]
    /\ attempt = [c \in Calls |-> 0]
    /\ last_exc = [c \in Calls |-> None]
    /\ posts = [c \in Calls |-> <<>>]
    /\ last_post = [c \in Calls |-> None]
    /\ sleeps = [c \in Calls |-> <<>>]
    /\ resp = [c \in Calls |-> NoResp]
    /\ request_id = [c \in Calls |-> None]
    /\ polling_url = [c \in Calls |-> None]
    /\ clock = [c \in Calls |-> 0]
    /\ gets = [c \in Calls |-> <<>>]
    /\ poll_fails = [c \in Calls |-> 0]
    /\ result = [c \in Calls |-> NoResult]
    /\ fetches = [c \in Calls |-> <<>>]
    /\ outcome = [c \in Calls |-> NoOutcome]
    /\ response = [c \in Calls |-> NoResponse]
    /\ disk \in NormDisks
    /\ norm_in \in NormRefs
    /\ norm_out = <<>>

\* the normalization of the reference, then of what that gave
Normalize ==
    /\ Len(norm_out) < MaxApplications
    /\ norm_out' = Append(norm_out,
           ToDataUrlIfNeeded(disk, IF norm_out = <<>> THEN norm_in
                                   ELSE norm_out[Len(norm_out)]))
    /\ UNCHANGED <<callVars, disk, norm_in>>

NormNext == Normalize

NormSpec == NormInit /\ [][NormNext]_vars

(***************************************************************************)
(* Image normalization (claim C10), stated without the code's operators:  *)
(* the extension by what it is, the encoding by its decoding.              *)
(***************************************************************************)
Range(s) == {s[i] : i \in 1..Len(s)}
SuffixesOf(s) == {SubSeq(s, k, Len(s)) : k \in 1..(Len(s) + 1)}
Longest(S) == CHOOSE s \in S : \A t \in S : Len(t) <= Len(s)

\* the file name: what follows the last "/"
FileNameOf(r) == Longest({n \in SuffixesOf(r) : "/" \notin Range(n)})

\* the extension: what follows the name's last dot, when something does
\* and something precedes that dot; in lower case
ExtensionOf(name) ==
    LET exts == {e \in SuffixesOf(name) :
                    /\ e # <<>>
                    /\ "." \notin Range(e)
                    /\ Len(name) >= Len(e) + 2
                    /\ name[Len(name) - Len(e)] = "."}
    IN  IF exts = {} THEN <<>> ELSE Lower(Longest(exts))

B64Index(ch) == CHOOSE n \in 0..63 : B64Alphabet[n + 1] = ch

\* the bytes a base64 text stands for
RECURSIVE B64Decode(_)
B64Decode(text) ==
    IF Len(text) < 4 THEN <<>>
    ELSE LET a == B64Index(text[1])
             b == B64Index(text[2])
             rest == B64Decode(SubSeq(text, 5, Len(text)))
         IN  IF text[3] = "=" THEN <<a * 4 + b \div 16>>
             ELSE IF text[4] = "="
             THEN << a * 4 + b \div 16,
                     (b % 16) * 16 + B64Index(text[3]) \div 4 >>
             ELSE << a * 4 + b \div 16,
                     (b % 16) * 16 + B64Index(text[3]) \div 4,
                     (B64Index(text[3]) % 4) * 64 + B64Index(text[4]) >>
                  \o rest

NormalizedAsClaimed(fs, r, out) ==
    IF \/ StartsWith(r, StrData)
       \/ StartsWith(r, StrHttp)
       \/ StartsWith(r, StrHttps)
    THEN out = r
    ELSE IF r \notin DOMAIN fs THEN out = r
    ELSE LET ext  == ExtensionOf(FileNameOf(r))
             mime == IF ext = StrPng \/ ext = <<>> THEN StrImage \o StrPng
                     ELSE StrImage \o ext
             head == StrData \o mime \o StrBase64
             text == SubSeq(out, Len(head) + 1, Len(out))
         IN  /\ StartsWith(out, head)
             /\ Len(text) = 4 * ((Len(fs[r]) + 2) \div 3)
             /\ B64Decode(text) = fs[r]

\* C10: the normalization of a reference is the reference itself when it
\* begins with data:, http:// or https://, else the reference itself when
\* it is no existing file, else data:<mime>;base64,<the file's bytes in
\* base64>, with mime image/png for the extension png or none and
\* image/<ext> for any other.
C10_Normalization ==
    norm_out # <<>> => NormalizedAsClaimed(disk, norm_in, norm_out[1])

\* photo.png, a 10-byte file, has become its data URL
C10_Witness ==
    /\ norm_out # <<>>
    /\ norm_in = RefPhoto
    /\ IsFile(disk, norm_in)
    /\ disk[norm_in] = TenBytes
    /\ norm_out[1] = StrData \o StrImage \o StrPng \o StrBase64
                     \o << "i", "V", "B", "O", "R", "w", "0", "K",
                           "G", "g", "o", "A", "/", "w", "=", "=" >>

(***************************************************************************)
(* Submission (claims C1, C2).                                             *)
(***************************************************************************)
Last(s) == s[Len(s)]
Ended(c) == pc[c] \in {"finish", "done"}
\* the submission succeeded: the latest POST did
Submitted(c) == posts[c] # <<>> /\ Last(posts[c]) = "ok"
\* POSTs were issued and every one failed
AllFailed(c) ==
    /\ posts[c] # <<>>
    /\ \A i \in 1..Len(posts[c]) : posts[c][i] = "fail"
ReadyWithSample(r) ==
    /\ Get(r, "status", "") = "Ready"
    /\ Get(NestedResult(r), "sample", <<>>) # <<>>

\* C1: when the first k POSTs of a call fail, k below the retry budget, and
\* POST k+1 succeeds, the call has issued exactly those k+1 POSTs (a
\* success is the last POST of the call, after one backoff sleep for each
\* of the k failures), it reads the response and goes on to polling, and
\* it returns when the first poll is Ready with a sample.
C1_RetrySuccess ==
    \A c \in Calls :
        /\ \A i \in 1..(Len(posts[c]) - 1) : posts[c][i] = "fail"
        /\ Submitted(c) =>
            /\ Len(posts[c]) <= cfg[c].max_post_retries
            /\ Len(sleeps[c]) = Len(posts[c]) - 1
            /\ pc[c] \in {"parse", "poll", "poll_get", "unwrap", "finish",
                          "done"}
            /\ ("id" \in DOMAIN resp[c].body /\ pc[c] # "parse")
                    => request_id[c] = Some(resp[c].body.id)
            /\ (Ended(c) /\ Len(gets[c]) = 1 /\ poll_fails[c] = 0
                    /\ ReadyWithSample(result[c]))
                    => outcome[c].kind = "return"

\* two failed POSTs, a third that succeeds, a first poll that is Ready with
\* a sample: the call has returned after exactly three POSTs
C1_Witness ==
    \E c \in Calls :
        /\ posts[c] = <<"fail", "fail", "ok">>
        /\ Len(gets[c]) = 1
        /\ ReadyWithSample(result[c])
        /\ outcome[c].kind = "return"

\* C2: when every submission POST of a call has failed and the call has
\* ended, it has issued exactly max_post_retries POSTs (3 by default, as in
\* the tools), it has raised the failure of the last of them, and it has
\* issued no poll GET.
C2_RetryExhaustion ==
    \A c \in Calls :
        (AllFailed(c) /\ Ended(c)) =>
            /\ Len(posts[c]) = cfg[c].max_post_retries
            /\ IsTool(c) => Len(posts[c]) = 3
            /\ last_post[c] # None
            /\ outcome[c] = Raise(last_post[c][1].type, "submission failed",
                                  last_post[c][1])
            /\ gets[c] = <<>>
            /\ request_id[c] = None

\* flux_generate has answered with an error after three failed POSTs, the
\* last of them a read timeout, and no poll
C2_Witness ==
    \E c \in Calls :
        /\ entry[c] = "flux_generate"
        /\ pc[c] = "done"
        /\ posts[c] = <<"fail", "fail", "fail">>
        /\ last_post[c] = Some(ExcReadTimeout)
        /\ outcome[c].kind = "raise"
        /\ outcome[c].type = "ReadTimeout"
        /\ response[c].status = "error"
        /\ gets[c] = <<>>

(***************************************************************************)
(* Polling and unwrapping (claims C3, C5, C6, C7).                         *)
(***************************************************************************)
\* the latest poll response reports that the job failed
ReportsFailure(r) == Get(r, "status", "") \in {"Error", "Failed"}
\* the latest poll response is Ready with no sample or an empty one
ReadyWithoutSample(r) ==
    /\ Get(r, "status", "") = "Ready"
    /\ Get(NestedResult(r), "sample", <<>>) = <<>>

\* C3: once a poll has returned the status Error or Failed, the call has
\* ended by raising the generation-failed error that carries the raw
\* payload (an error response, when a tool made the call), and the call
\* issues no further poll GET and no further submission POST.
C3_FailedJobEndsCall ==
    /\ [](\A c \in Calls :
            ReportsFailure(result[c]) =>
                /\ Ended(c)
                /\ outcome[c] = Raise("RuntimeError", "Generation failed",
                                      result[c])
                /\ (IsTool(c) /\ pc[c] = "done")
                        => response[c].status = "error")
    /\ [][\A c \in Calls :
            ReportsFailure(result[c]) =>
                /\ gets'[c] = gets[c]
                /\ posts'[c] = posts[c]
                /\ result'[c] = result[c]]_vars

\* a second poll has returned Failed and the call has raised
C3_Witness ==
    \E c \in Calls :
        /\ Get(result[c], "status", "") = "Failed"
        /\ Len(gets[c]) = 2
        /\ outcome[c].kind = "raise"
        /\ outcome[c].text = "Generation failed"
        /\ pc[c] = "done"

\* C5: a poll GET that fails does not end the call: the loop goes on to
\* its next test with nothing raised.  And whatever polls failed before
\* it, a poll started within the budget that is Ready with a sample makes
\* the call return it.
C5_PollFailuresSwallowed ==
    /\ [][\A c \in Calls :
            poll_fails'[c] # poll_fails[c] =>
                /\ pc[c] = "poll_get"
                /\ pc'[c] = "poll"
                /\ outcome'[c] = NoOutcome
                /\ result'[c] = result[c]]_vars
    /\ [](\A c \in Calls :
            (ReadyWithSample(result[c]) /\ Ended(c)) =>
                /\ outcome[c].kind = "return"
                /\ outcome[c].sample = result[c].result.sample
                /\ (IsTool(c) /\ pc[c] = "done")
                        => response[c].status = "success")

\* two polls failed, the third was Ready with a sample, the call returned
C5_Witness ==
    \E c \in Calls :
        /\ poll_fails[c] = 2
        /\ Len(gets[c]) = 3
        /\ ReadyWithSample(result[c])
        /\ outcome[c].kind = "return"

\* C6: when generate or edit_image has returned, the image URL is not
\* empty and is the sample of the Ready result polled for the job id that
\* the call's own submission returned; the metadata holds that id, the
\* model posted to and the nested result, and for an edit the operation
\* tag and the original image reference too.
C6_SuccessfulReturn ==
    \A c \in Calls :
        outcome[c].kind = "return" =>
            LET id == resp[c].body.id
                meta == outcome[c].meta
            IN  /\ outcome[c].sample # <<>>
                /\ Get(result[c], "status", "") = "Ready"
                /\ outcome[c].sample = result[c].result.sample
                /\ outcome[c].sample = SampleOf(id)
                /\ Last(gets[c])[2] = id
                /\ meta.request_id = id
                /\ meta.model = Last(endpoint[c])
                /\ meta.result = result[c].result
                /\ IsEdit(c) =>
                    /\ meta.operation = "image_edit"
                    /\ meta.original_image = args[c].image_url
                /\ ~IsEdit(c) => DOMAIN meta = {"request_id", "model", "result"}

\* an edit through the tool has returned the sample of its job
C6_Witness ==
    \E c \in Calls :
        /\ entry[c] = "flux_edit_image"
        /\ pc[c] = "done"
        /\ outcome[c].kind = "return"
        /\ outcome[c].sample = SampleOf(request_id[c][1])
        /\ response[c].status = "success"
        /\ response[c].meta.original_image = RefHttps

\* C7: a Ready result without a sample, or with an empty one, makes the
\* call raise the missing-sample error carrying the result; no call
\* returns an empty image URL and no tool answers success with one.
C7_MissingSample ==
    \A c \in Calls :
        /\ ReadyWithoutSample(result[c]) =>
            \/ pc[c] = "unwrap"
            \/ /\ Ended(c)
               /\ outcome[c] = Raise("RuntimeError",
                                     "Missing sample in result", result[c])
               /\ (IsTool(c) /\ pc[c] = "done")
                        => response[c].status = "error"
        /\ outcome[c].kind = "return" => outcome[c].sample # <<>>
        /\ response[c].status = "success" =>
            /\ ~ReadyWithoutSample(result[c])
            /\ IF entry[c] = "flux_generate"
               THEN response[c].image # <<>>
               ELSE response[c].edited_image # <<>>

\* a Ready result with an empty sample has made flux_generate answer with
\* the missing-sample error
C7_Witness ==
    \E c \in Calls :
        /\ entry[c] = "flux_generate"
        /\ pc[c] = "done"
        /\ result[c] = [status |-> "Ready", result |-> [sample |-> <<>>]]
        /\ outcome[c].kind = "raise"
        /\ outcome[c].text = "Missing sample in result"
        /\ response[c].status = "error"

(***************************************************************************)
(* _poll_for_result on its own (claim C4): from its entry, for any budget  *)
(* and any job, under the fairness the call's thread gives its steps.      *)
(***************************************************************************)
\* Call 1, an adapter caller's generate whose first POST was answered with
\* body, as _poll_for_result is entered.
PollEntered(poll_timeout, body) ==
    LET a == NewAdapter("flux-dev", None, poll_timeout, DefaultMaxPostRetries)
        only(x, none) == [c \in Calls |-> IF c = 1 THEN x ELSE none]
    IN  /\ pc = only("poll", "unused")
        /\ entry = only("generate", "none")
        /\ cfg = only(a, NoCfg)
        /\ args = [c \in Calls |-> NoArgs]
        /\ payload = [c \in Calls |-> NoPayload]
        /\ endpoint = only(GenerateEndpoint(a), <<>>)
        /\ attempt = [c \in Calls |-> 0]
        /\ last_exc = [c \in Calls |-> None]
        /\ posts = only(<<"ok">>, <<>>)
        /\ last_post = [c \in Calls |-> None]
        /\ sleeps = [c \in Calls |-> <<>>]
        /\ resp = only([kind |-> "ok", body |-> body], NoResp)
        /\ request_id = only(Some(body.id), None)
        /\ polling_url = only(Some(Get(body, "polling_url",
                                       DefaultPollingUrl(a.base_url))), None)
        /\ clock = [c \in Calls |-> 0]
        /\ gets = [c \in Calls |-> <<>>]
        /\ poll_fails = [c \in Calls |-> 0]
        /\ result = [c \in Calls |-> NoResult]
        /\ fetches = [c \in Calls |-> <<>>]
        /\ outcome = [c \in Calls |-> NoOutcome]
        /\ response = [c \in Calls |-> NoResponse]
        /\ disk = DefaultDisk
        /\ norm_in = <<>>
        /\ norm_out = <<>>

PollInit ==
    \E poll_timeout \in PollTimeouts,
       body \in {b \in SubmissionBodies : "id" \in DOMAIN b} :
        PollEntered(poll_timeout, body)

PollStep(c) == PollSleep(c) \/ PollTimeout(c) \/ PollGet(c)

PollNext == \E c \in Calls : PollStep(c)

\* The call's thread keeps running: a step of the loop that can be taken
\* is taken.
PollFairSpec ==
    PollInit /\ [][PollNext]_vars /\ \A c \in Calls : WF_vars(PollStep(c))

InPollLoop(c) == pc[c] \in {"poll", "poll_get"}
BudgetTicks(c) == TicksPerSecond * cfg[c].poll_timeout
IsTerminal(r) == Get(r, "status", "") \in {"Ready", "Error", "Failed"}

\* C4: the poll loop ends.  It issues no more poll GETs than the budget has
\* half seconds, and when it has ended without a poll that returned Ready,
\* Error or Failed, the elapsed time has reached max_wait and the call has
\* raised the timeout error naming the job id.
C4_PollLoopEnds ==
    /\ \A c \in Calls : InPollLoop(c) ~> ~InPollLoop(c)
    /\ [](\A c \in Calls :
            request_id[c] # None =>
                /\ Len(gets[c]) * PollSleepTicks <= BudgetTicks(c)
                    \/ gets[c] = <<>>
                /\ (~InPollLoop(c) /\ ~IsTerminal(result[c])) =>
                    /\ clock[c] >= BudgetTicks(c)
                    /\ outcome[c] = Raise("TimeoutError", "timed out",
                            <<request_id[c][1], cfg[c].poll_timeout>>))

\* after a pending poll and a failed one, the budget is used up and the
\* call has raised the timeout error
C4_Witness ==
    \E c \in Calls :
        /\ pc[c] = "finish"
        /\ outcome[c].kind = "raise"
        /\ outcome[c].type = "TimeoutError"
        /\ outcome[c].detail[1] = request_id[c][1]
        /\ Len(gets[c]) >= 2
        /\ poll_fails[c] >= 1
        /\ Get(result[c], "status", "") = "Pending"
        /\ clock[c] >= BudgetTicks(c)

(***************************************************************************)
(* The payload's size fields (claim C8).                                   *)
(***************************************************************************)
\* the call holds a payload that it has posted or is about to post
PayloadInFlight(c) ==
    /\ pc[c] \in {"post", "backoff"}
    /\ posts[c] # <<>> \/ MoreAttempts(c)

\* an aspect ratio is configured: in the adapter or, for an edit, passed
\* with the call; an empty one is none
AspectConfigured(c) ==
    \/ Truthy(cfg[c].aspect_ratio)
    \/ IsEdit(c) /\ Truthy(args[c].aspect_ratio)

HasSize(p) == "width" \in DOMAIN p /\ "height" \in DOMAIN p
HasNoSize(p) == "width" \notin DOMAIN p /\ "height" \notin DOMAIN p

\* C8 as claimed: every submitted payload holds aspect_ratio and neither
\* width nor height when an aspect ratio is configured, and both width and
\* height and no aspect_ratio when none is.
C8_AsClaimed ==
    \A c \in Calls :
        PayloadInFlight(c) =>
            IF AspectConfigured(c)
            THEN "aspect_ratio" \in DOMAIN payload[c] /\ HasNoSize(payload[c])
            ELSE "aspect_ratio" \notin DOMAIN payload[c] /\ HasSize(payload[c])

\* C8, amended: in every submitted payload aspect ratio and width/height
\* exclude each other.  With an aspect ratio configured the payload holds
\* it and neither width nor height; with none, a generate payload holds the
\* configured width and height and no aspect_ratio, and an edit payload
\* holds none of the three.
C8_AspectOrSize ==
    \A c \in Calls :
        PayloadInFlight(c) =>
            LET p == payload[c]
            IN  /\ ~("aspect_ratio" \in DOMAIN p
                        /\ ("width" \in DOMAIN p \/ "height" \in DOMAIN p))
                /\ IF AspectConfigured(c)
                   THEN /\ "aspect_ratio" \in DOMAIN p
                        /\ HasNoSize(p)
                        /\ p.aspect_ratio =
                            IF IsEdit(c) /\ Truthy(args[c].aspect_ratio)
                            THEN args[c].aspect_ratio[1]
                            ELSE cfg[c].aspect_ratio[1]
                   ELSE /\ "aspect_ratio" \notin DOMAIN p
                        /\ IF IsEdit(c) THEN HasNoSize(p)
                           ELSE /\ HasSize(p)
                                /\ p.width = cfg[c].width
                                /\ p.height = cfg[c].height

\* an edit with no aspect ratio anywhere has posted a payload, which holds
\* none of aspect_ratio, width and height
C8_Witness ==
    \E c \in Calls :
        /\ IsEdit(c)
        /\ pc[c] = "backoff"
        /\ posts[c] # <<>>
        /\ ~AspectConfigured(c)
        /\ DOMAIN payload[c] \cap {"aspect_ratio", "width", "height"} = {}

(***************************************************************************)
(* The tools' boundary (claim C9).                                         *)
(***************************************************************************)
\* C9: whatever the adapter call returned or raised, a tool that has
\* finished has answered: with status success, the call's non-empty image
\* reference and its metadata, when the call returned, and with status
\* error and a message when it raised or was never made.
C9_ToolBoundary ==
    \A c \in Calls :
        (IsTool(c) /\ pc[c] = "done") =>
            \/ /\ response[c].status = "success"
               /\ outcome[c].kind = "return"
               /\ DOMAIN response[c] \in
                    { {"status", "image", "meta"},
                      {"status", "edited_image", "original_image", "meta"} }
               /\ IF entry[c] = "flux_generate"
                  THEN /\ response[c].image = outcome[c].sample
                       /\ response[c].image # <<>>
                  ELSE /\ response[c].edited_image = outcome[c].sample
                       /\ response[c].edited_image # <<>>
                       /\ response[c].original_image # <<>>
               /\ response[c].meta = outcome[c].meta
            \/ /\ response[c].status = "error"
               /\ outcome[c].kind # "return"
               /\ DOMAIN response[c] = {"status", "message"}

\* flux_edit_image has answered with an error for an image it could not
\* fetch
C9_Witness ==
    \E c \in Calls :
        /\ entry[c] = "flux_edit_image"
        /\ pc[c] = "done"
        /\ outcome[c].kind = "raise"
        /\ outcome[c].text = "Failed to process input image"
        /\ Len(fetches[c]) = 1
        /\ response[c].status = "error"

(***************************************************************************)
(* The edit's download (claim C11).                                        *)
(***************************************************************************)
\* the call's download of its source image failed
DownloadFailed(c) == fetches[c] # <<>> /\ Last(fetches[c]).kind = "fail"

\* C11: when the source of an edit is no data URL and its download fails
\* (a timeout, a network error, an error status), the call has ended with
\* the image-fetch error that wraps the cause, after exactly one download
\* GET, without any submission POST or poll GET; a tool answers with an
\* error.
C11_DownloadFailure ==
    \A c \in Calls :
        DownloadFailed(c) =>
            /\ IsEdit(c)
            /\ ~StartsWith(args[c].image_url, StrData)
            /\ Len(fetches[c]) = 1
            /\ Ended(c)
            /\ outcome[c] = Raise("ValueError",
                                  "Failed to process input image",
                                  fetches[c][1].exc)
            /\ posts[c] = <<>>
            /\ gets[c] = <<>>
            /\ request_id[c] = None
            /\ (IsTool(c) /\ pc[c] = "done") => response[c].status = "error"

\* an edit of a remote image whose download was answered with an error
\* status has ended with the image-fetch error
C11_Witness ==
    \E c \in Calls :
        /\ entry[c] = "edit_image"
        /\ fetches[c] = <<[kind |-> "fail", exc |-> ExcHttp(500)]>>
        /\ args[c].image_url = RefHttps
        /\ pc[c] = "done"
        /\ outcome[c].text = "Failed to process input image"
        /\ posts[c] = <<>>

(***************************************************************************)
(* An edit without an image (claim C12).                                   *)
(***************************************************************************)
\* the call is an edit whose image reference is empty
EmptyReference(c) ==
    /\ IsEdit(c)
    /\ "image_url" \in DOMAIN args[c]
    /\ args[c].image_url = <<>>

\* C12: an edit whose image reference is empty submits no job, through
\* flux_edit_image and on the adapter alike: it never builds a payload,
\* issues no submission POST and no poll GET, and sends no download
\* request; when it has ended, the tool has answered with an error without
\* calling the adapter ("image_url is required" when the key is set), and
\* the adapter has raised a ValueError.
C12_EmptyImageReference ==
    \A c \in Calls :
        EmptyReference(c) =>
            /\ pc[c] \in {"edit", "finish", "done"}
            /\ payload[c] = NoPayload
            /\ posts[c] = <<>>
            /\ gets[c] = <<>>
            /\ request_id[c] = None
            /\ \A i \in 1..Len(fetches[c]) :
                    fetches[c][i] = [kind |-> "fail", exc |-> ExcMissingSchema]
            /\ IF IsTool(c)
               THEN /\ pc[c] = "done"
                    /\ cfg[c] = NoCfg
                    /\ fetches[c] = <<>>
                    /\ response[c] \in
                         {ErrorResponse("BFL_API_KEY not set"),
                          ErrorResponse("image_url is required")}
               ELSE Ended(c) =>
                        /\ outcome[c].kind = "raise"
                        /\ outcome[c].type = "ValueError"
                        /\ cfg[c] # NoCfg =>
                              outcome[c].text = "Failed to process input image"

\* edit_image was called on an adapter with an empty image reference and
\* has raised
C12_Witness ==
    \E c \in Calls :
        /\ entry[c] = "edit_image"
        /\ cfg[c] # NoCfg
        /\ EmptyReference(c)
        /\ pc[c] = "done"
        /\ outcome[c].type = "ValueError"
        /\ posts[c] = <<>>

(***************************************************************************)
(* Two calls in progress on one adapter (claim C13): generate and          *)
(* edit_image run each call in a thread of its own (asyncio.to_thread),    *)
(* and the threads' steps interleave in any order.                         *)
(***************************************************************************)
\* the adapter the calls share: one POST, polls for one second
SharedAdapter == NewAdapter("flux-dev", None, 1, 1)

ConcArgs(how) ==
    IF how = "generate"
    THEN GenerateArgs("a simple red circle", None, None)
    ELSE EditArgs("a simple red circle", RefInline, None, Some(0), "jpeg")

\* the two calls: two generates, a generate and an edit, or two edits
ConcCalls == {1, 2}
ConcEntries ==
    { <<"generate", "generate">>, <<"generate", "edit_image">>,
      <<"edit_image", "edit_image">> }

ConcInit ==
    \E how \in ConcEntries :
        /\ pc = [c \in Calls |->
                   IF c \notin ConcCalls THEN "unused"
                   ELSE IF how[c] = "generate" THEN "generate" ELSE "edit"]
        /\ entry = [c \in Calls |->
                      IF c \in ConcCalls THEN how[c] ELSE "none"]
        /\ cfg = [c \in Calls |->
                    IF c \in ConcCalls THEN SharedAdapter ELSE NoCfg]
        /\ args = [c \in Calls |->
                     IF c \in ConcCalls THEN ConcArgs(how[c]) ELSE NoArgs]
        /\ payload = [c \in Calls |-> NoPayload]
        /\ endpoint = [c \in Calls |-> <<>>]
        /\ attempt = [c \in Calls |-> 0]
        /\ last_exc = [c \in Calls |-> None]
        /\ posts = [c \in Calls |-> <<>>]
        /\ last_post = [c \in Calls |-> None]
        /\ sleeps = [c \in Calls |-> <<>>]
        /\ resp = [c \in Calls |-> NoResp]
        /\ request_id = [c \in Calls |-> None]
        /\ polling_url = [c \in Calls |-> None]
        /\ clock = [c \in Calls |-> 0]
        /\ gets = [c \in Calls |-> <<>>]
        /\ poll_fails = [c \in Calls |-> 0]
        /\ result = [c \in Calls |-> NoResult]
        /\ fetches = [c \in Calls |-> <<>>]
        /\ outcome = [c \in Calls |-> NoOutcome]
        /\ response = [c \in Calls |-> NoResponse]
        /\ disk = DefaultDisk
        /\ norm_in = <<>>
        /\ norm_out = <<>>

ConcStep(c) ==
    \/ GenerateBuild(c)
    \/ EditPrepare(c)
    \/ PostAttempt(c)
    \/ PostBackoff(c)
    \/ PostGiveUp(c)
    \/ ParseSubmission(c)
    \/ PollSleep(c)
    \/ PollTimeout(c)
    \/ PollGet(c)
    \/ Unwrap(c)
    \/ AdapterReturn(c)

ConcNext == \E c \in Calls : ConcStep(c)

ConcSpec == ConcInit /\ [][ConcNext]_vars

\* the variables of one call
CallState(c) ==
    << pc[c], entry[c], cfg[c], args[c], payload[c], endpoint[c],
       attempt[c], last_exc[c], posts[c], last_post[c], sleeps[c], resp[c],
       request_id[c], polling_url[c], clock[c], gets[c], poll_fails[c],
       result[c], fetches[c], outcome[c], response[c] >>

\* What a call that has ended returns or raises when it runs alone, from
\* what the remote service answered to this call: the failure of its last
\* POST; else the error of a submission body that is no JSON or has no id;
\* else, by the last poll body it has read, the sample and metadata of a
\* Ready body, the error of a Ready body without sample or of a failed
\* job; else the timeout.
AloneOutcome(c) ==
    LET body   == resp[c].body
        r      == result[c]
        status == Get(r, "status", "")
        nested == NestedResult(r)
        meta   == IF IsEdit(c)
                  THEN [ request_id     |-> body.id,
                         model          |-> "flux-kontext-pro",
                         operation      |-> "image_edit",
                         original_image |-> args[c].image_url,
                         result         |-> nested ]
                  ELSE [ request_id |-> body.id,
                         model      |-> cfg[c].model,
                         result     |-> nested ]
    IN  IF ~Submitted(c)
        THEN Raise(last_post[c][1].type, "submission failed", last_post[c][1])
        ELSE IF body = NotJson THEN Raise("JSONDecodeError", "", None)
        ELSE IF "id" \notin DOMAIN body THEN Raise("KeyError", "id", None)
        ELSE IF status = "Ready"
        THEN IF Get(nested, "sample", <<>>) = <<>>
             THEN Raise("RuntimeError", "Missing sample in result", r)
             ELSE Return(nested.sample, meta)
        ELSE IF status \in {"Error", "Failed"}
        THEN Raise("RuntimeError", "Generation failed", r)
        ELSE Raise("TimeoutError", "timed out",
                   <<body.id, cfg[c].poll_timeout>>)

\* C13: with two calls in progress on one adapter, in any interleaving,
\* every poll GET of a call carries the job id of the call's own
\* submission response, every step changes the variables of one call only,
\* and a call that has ended has the outcome it has alone with the same
\* answers of the remote service.
C13_IndependentCalls ==
    /\ [](\A c \in ConcCalls :
            /\ \A i \in 1..Len(gets[c]) :
                  /\ Submitted(c)
                  /\ "id" \in DOMAIN resp[c].body
                  /\ gets[c][i][2] = resp[c].body.id
            /\ Ended(c) => outcome[c] = AloneOutcome(c))
    /\ [][\E c \in ConcCalls :
            \A d \in Calls \ {c} : CallState(d)' = CallState(d)]_vars

\* both calls have been submitted, have got different job ids, have polled
\* and have returned, each the sample of its own job
C13_Witness ==
    \A c \in ConcCalls :
        /\ pc[c] = "done"
        /\ outcome[c].kind = "return"
        /\ request_id[c] = Some(JobIdOf(c))
        /\ gets[c] # <<>>
        /\ outcome[c].sample = SampleOf(request_id[c][1])

(***************************************************************************)
(* The phases of a call (claim C14).                                       *)
(***************************************************************************)
\* the call is unwrapping a result or has unwrapped one
Unwrapped(c) ==
    \/ pc[c] = "unwrap"
    \/ outcome[c].kind = "return"
    \/ outcome[c].kind = "raise" /\ outcome[c].text = "Missing sample in result"

\* C14: a call submits, then polls, then unwraps.  A poll GET is issued
\* only when a submission POST has succeeded and its response has given
\* the job id; once a poll GET has been issued no submission POST is
\* issued; and a result is unwrapped only when a poll has returned it with
\* status Ready.
C14_PhaseOrder ==
    /\ [](\A c \in Calls :
            /\ (gets[c] # <<>> \/ pc[c] = "poll_get") =>
                  /\ Submitted(c)
                  /\ "id" \in DOMAIN resp[c].body
                  /\ request_id[c] = Some(resp[c].body.id)
            /\ Unwrapped(c) =>
                  /\ gets[c] # <<>>
                  /\ Len(gets[c]) > poll_fails[c]
                  /\ Get(result[c], "status", "") = "Ready")
    /\ [][\A c \in Calls :
            /\ gets[c] # <<>> => posts'[c] = posts[c]
            /\ Unwrapped(c) => gets'[c] = gets[c] /\ posts'[c] = posts[c]
            /\ gets'[c] # gets[c] => pc[c] = "poll_get" /\ Submitted(c)
            /\ posts'[c] # posts[c] => pc[c] = "post" /\ gets[c] = <<>>]_vars

\* a call that failed to submit twice, submitted, polled a pending job
\* and then a ready one, has returned
C14_Witness ==
    \E c \in Calls :
        /\ posts[c] = <<"fail", "fail", "ok">>
        /\ Len(gets[c]) = 2
        /\ outcome[c].kind = "return"
        /\ pc[c] = "done"

(***************************************************************************)
(* Which submission failures are retried (claim C15).                      *)
(***************************************************************************)
\* C15, as claimed: a submission POST that is rejected with a 4xx status is
\* not retried: a call whose latest POST came back with a 4xx is never
\* about to POST again.
C15_ClientErrorNotRetried ==
    \A c \in Calls :
        last_post[c] = Some(ExcHttp(400)) =>
            ~(pc[c] = "post" /\ MoreAttempts(c))

(***************************************************************************)
(* A submission response that cannot be read (claim C16).                  *)
(***************************************************************************)
ReadableBody(body) == body # NotJson /\ "id" \in DOMAIN body

\* the submission succeeded and the call has read its response, which is
\* no JSON or has no id
BadSubmissionBody(c) ==
    /\ Submitted(c)
    /\ pc[c] # "parse"
    /\ resp[c].body = NotJson \/ "id" \notin DOMAIN resp[c].body

\* C16: when a submission POST has succeeded and its body is no JSON or
\* has no id, the call has ended with the error of reading it, the
\* successful POST is the last POST of the call, and the call has no job
\* id and has issued no poll GET.
C16_ProtocolViolation ==
    /\ [](\A c \in Calls :
            BadSubmissionBody(c) =>
                /\ Ended(c)
                /\ outcome[c] =
                      IF resp[c].body = NotJson
                      THEN Raise("JSONDecodeError", "", None)
                      ELSE Raise("KeyError", "id", None)
                /\ request_id[c] = None
                /\ gets[c] = <<>>
                /\ (IsTool(c) /\ pc[c] = "done")
                      => response[c].status = "error")
    /\ [][\A c \in Calls :
            (Submitted(c) /\ ~ReadableBody(resp[c].body))
                => posts'[c] = posts[c]]_vars

\* a call whose second POST succeeded with a body without id has ended
\* with the KeyError, after two POSTs and no poll
C16_Witness ==
    \E c \in Calls :
        /\ posts[c] = <<"fail", "ok">>
        /\ resp[c].body = [detail |-> "queued"]
        /\ pc[c] = "done"
        /\ outcome[c].type = "KeyError"
        /\ gets[c] = <<>>

(***************************************************************************)
(* The payload's fields (claims C17, C18).                                 *)
(***************************************************************************)
\* C17 as claimed: every submitted payload, of a generate and of an edit,
\* holds prompt, safety_tolerance, prompt_upsampling and raw.
C17_AsClaimed ==
    \A c \in Calls :
        PayloadInFlight(c) =>
            {"prompt", "safety_tolerance", "prompt_upsampling", "raw"}
                \subseteq DOMAIN payload[c]

\* C17, amended: every submitted payload holds the call's prompt and the
\* adapter's safety tolerance and prompt-upsampling flag; a generate
\* payload holds the adapter's raw-mode flag as well, an edit payload has
\* no raw field.
C17_CommonFields ==
    \A c \in Calls :
        PayloadInFlight(c) =>
            LET p == payload[c]
            IN  /\ {"prompt", "safety_tolerance", "prompt_upsampling"}
                      \subseteq DOMAIN p
                /\ p.prompt = args[c].prompt_text
                /\ p.safety_tolerance = cfg[c].safety_tolerance
                /\ p.prompt_upsampling = cfg[c].prompt_upsampling
                /\ IF IsEdit(c) THEN "raw" \notin DOMAIN p
                   ELSE "raw" \in DOMAIN p /\ p.raw = cfg[c].use_raw_mode

\* an edit has posted a payload with the three common fields and no raw
C17_Witness ==
    \E c \in Calls :
        /\ IsEdit(c)
        /\ pc[c] = "backoff"
        /\ posts[c] # <<>>
        /\ DOMAIN payload[c] \cap
              {"prompt", "safety_tolerance", "prompt_upsampling", "raw"}
              = {"prompt", "safety_tolerance", "prompt_upsampling"}

\* C18: the optional fields are in a submitted payload exactly when they
\* were supplied, with the value supplied: in a generate payload
\* guidance_scale when a guidance scale was passed (0 included) and
\* input_image, normalized, when a non-empty image reference was passed;
\* in an edit payload seed when a seed was passed (0 included).
C18_OptionalFields ==
    \A c \in Calls :
        PayloadInFlight(c) =>
            LET p == payload[c]
                x == args[c]
            IN  IF IsEdit(c)
                THEN /\ "seed" \in DOMAIN p <=> x.seed # None
                     /\ "seed" \in DOMAIN p => p.seed = x.seed[1]
                     /\ "guidance_scale" \notin DOMAIN p
                ELSE /\ "guidance_scale" \in DOMAIN p
                          <=> x.guidance_scale # None
                     /\ "guidance_scale" \in DOMAIN p
                          => p.guidance_scale = x.guidance_scale[1]
                     /\ "input_image" \in DOMAIN p
                          <=> (x.input_image # None /\ x.input_image[1] # <<>>)
                     /\ "input_image" \in DOMAIN p
                          => p.input_image
                               = ToDataUrlIfNeeded(disk, x.input_image[1])
                     /\ "seed" \notin DOMAIN p

\* an edit called with seed 0 has posted a payload with seed 0
C18_Witness ==
    \E c \in Calls :
        /\ IsEdit(c)
        /\ pc[c] = "backoff"
        /\ posts[c] # <<>>
        /\ args[c].seed = Some(0)
        /\ "seed" \in DOMAIN payload[c]
        /\ payload[c].seed = 0

(***************************************************************************)
(* The polling URL (claim C19).                                            *)
(***************************************************************************)
\* C19: every poll GET of a call goes to the polling_url of the call's
\* submission response when it has one and to {base}/v1/get_result when
\* it has none, with the id of that response as its id parameter; so all
\* poll GETs of a call go to one URL.
C19_PollingUrl ==
    \A c \in Calls :
        \A i \in 1..Len(gets[c]) :
            LET data == resp[c].body
            IN  /\ gets[c][i][1] =
                      IF "polling_url" \in DOMAIN data THEN data.polling_url
                      ELSE <<cfg[c].base_url, "/v1/get_result">>
                /\ gets[c][i][2] = data.id
                /\ gets[c][i] = gets[c][1]

\* a call has polled twice at the URL its submission response named
C19_Witness ==
    \E c \in Calls :
        /\ Len(gets[c]) = 2
        /\ "polling_url" \in DOMAIN resp[c].body
        /\ gets[c][1] = <<RemotePollingUrl(JobIdOf(c)), JobIdOf(c)>>
        /\ gets[c][2] = gets[c][1]

(***************************************************************************)
(* The edit's source image (claim C20).                                    *)
(***************************************************************************)
\* C20: the input_image of a submitted edit payload is the source itself,
\* with no download, when the source begins with data:; else the source
\* was downloaded with exactly one GET and input_image is
\* data:<content type>;base64,<text>, the content type being the one the
\* response declares, or image/jpeg when it declares none, and the text
\* the base64 encoding of exactly the bytes downloaded.
C20_EditSource ==
    \A c \in Calls :
        (IsEdit(c) /\ PayloadInFlight(c)) =>
            LET url == args[c].image_url
                got == fetches[c][1]
                ctype == IF "content_type" \in DOMAIN got.headers
                         THEN got.headers.content_type
                         ELSE StrImage \o StrJpeg
                head == StrData \o ctype \o StrBase64
                out  == payload[c].input_image
                text == SubSeq(out, Len(head) + 1, Len(out))
            IN  IF StartsWith(url, StrData)
                THEN out = url /\ fetches[c] = <<>>
                ELSE /\ Len(fetches[c]) = 1
                     /\ got.kind = "ok"
                     /\ StartsWith(out, head)
                     /\ Len(text) = 4 * ((Len(got.content) + 2) \div 3)
                     /\ B64Decode(text) = got.content

\* an edit of a remote image, downloaded as ten bytes of no declared type,
\* has posted them as a data:image/jpeg;base64 URL
C20_Witness ==
    \E c \in Calls :
        /\ IsEdit(c)
        /\ pc[c] = "backoff"
        /\ posts[c] # <<>>
        /\ args[c].image_url = RefHttps
        /\ fetches[c] = << [kind |-> "ok", content |-> TenBytes,
                            headers |-> [server |-> "cdn"]] >>
        /\ payload[c].input_image =
              StrData \o StrImage \o StrJpeg \o StrBase64
              \o << "i", "V", "B", "O", "R", "w", "0", "K",
                    "G", "g", "o", "A", "/", "w", "=", "=" >>

(***************************************************************************)
(* The assertion of _post_with_retries (claim C21).                        *)
(***************************************************************************)
\* C21, as claimed: the assertion last_exc is not None holds whenever it
\* is reached, for every retry budget from 0 on: no call ends with an
\* assertion failure.
C21_AssertionHolds ==
    \A c \in Calls :
        ~(outcome[c].kind = "raise" /\ outcome[c].type = "AssertionError")

(***************************************************************************)
(* The backoff sleeps (claim C23).                                         *)
(***************************************************************************)
FailedPosts(c) == Cardinality({i \in 1..Len(posts[c]) : posts[c][i] = "fail"})

\* C23: the n-th failed POST of a call is followed by one sleep of
\* 1.5 s * n (3n ticks of half a second), the last POST of the budget
\* included, before the next POST or the raise; so the sleeps are as many
\* as the failed POSTs (one less while the call is about to sleep), they
\* grow strictly, and a successful POST is followed by no sleep.
C23_BackoffAccounting ==
    /\ [](\A c \in Calls :
            /\ \A i \in 1..Len(sleeps[c]) : sleeps[c][i] = 3 * i
            /\ \A i, j \in 1..Len(sleeps[c]) :
                  i < j => sleeps[c][i] < sleeps[c][j]
            /\ Len(sleeps[c]) =
                  IF pc[c] = "backoff" THEN FailedPosts(c) - 1
                  ELSE FailedPosts(c)
            /\ Submitted(c) => Len(sleeps[c]) = Len(posts[c]) - 1
            /\ (AllFailed(c) /\ Ended(c)) => Len(sleeps[c]) = Len(posts[c]))
    /\ [][\A c \in Calls :
            /\ (posts'[c] # posts[c] /\ Last(posts'[c]) = "fail")
                  => pc'[c] = "backoff" /\ sleeps'[c] = sleeps[c]
            /\ (posts'[c] # posts[c] /\ Last(posts'[c]) = "ok")
                  => pc'[c] = "parse" /\ sleeps'[c] = sleeps[c]
            /\ pc[c] = "backoff"
                  => /\ posts'[c] = posts[c]
                     /\ Len(sleeps'[c]) = Len(sleeps[c]) + 1
                     /\ outcome'[c] = outcome[c]]_vars

\* a call with a budget of three has raised after three failed POSTs and
\* sleeps of 1.5 s, 3 s and 4.5 s
C23_Witness ==
    \E c \in Calls :
        /\ posts[c] = <<"fail", "fail", "fail">>
        /\ sleeps[c] = <<3, 6, 9>>
        /\ outcome[c].kind = "raise"
        /\ pc[c] = "done"

(***************************************************************************)
(* Where the poll deadline is tested (claim C22).                          *)
(***************************************************************************)
TimedOut(o) == o.kind = "raise" /\ o.type = "TimeoutError"

\* C22: the deadline is tested at the head of a pass only.  A pass that
\* has started within the budget issues its GET, and the status that GET
\* returns decides, however late: a call that has left the loop with a
\* Ready result unwraps it, one with an Error or Failed result has raised
\* the generation failure, and only a call whose last result is neither
\* has timed out, at a loop head that found the budget used up, without a
\* GET in that step.  With a budget of 0 or less the timeout is raised
\* without any poll GET.
C22_DeadlineAtLoopHead ==
    /\ [](\A c \in Calls :
            (request_id[c] # None /\ ~InPollLoop(c)) =>
                LET status == Get(result[c], "status", "")
                IN  /\ status = "Ready" =>
                          /\ ~TimedOut(outcome[c])
                          /\ \/ pc[c] = "unwrap"
                             \/ outcome[c].kind = "return"
                             \/ outcome[c] = Raise("RuntimeError",
                                    "Missing sample in result", result[c])
                    /\ status \in {"Error", "Failed"} =>
                          outcome[c] = Raise("RuntimeError",
                                             "Generation failed", result[c])
                    /\ status \notin {"Ready", "Error", "Failed"} =>
                          /\ TimedOut(outcome[c])
                          /\ clock[c] >= BudgetTicks(c)
                    /\ cfg[c].poll_timeout <= 0 =>
                          TimedOut(outcome[c]) /\ gets[c] = <<>>)
    /\ [][\A c \in Calls :
            /\ gets'[c] # gets[c] =>
                  /\ pc[c] = "poll_get"
                  /\ clock[c] - PollSleepTicks < BudgetTicks(c)
                  /\ ~TimedOut(outcome'[c])
            /\ (TimedOut(outcome'[c]) /\ ~TimedOut(outcome[c])) =>
                  /\ pc[c] = "poll"
                  /\ clock[c] >= BudgetTicks(c)
                  /\ gets'[c] = gets[c]]_vars

\* a call has returned the sample of a Ready result that arrived when the
\* budget was used up
C22_Witness ==
    \E c \in Calls :
        /\ request_id[c] # None
        /\ cfg[c].poll_timeout > 0
        /\ clock[c] > BudgetTicks(c)
        /\ Get(result[c], "status", "") = "Ready"
        /\ outcome[c].kind = "return"

(***************************************************************************)
(* The normalization applied twice (claim C24).                            *)
(***************************************************************************)
\* C24: on a fixed file system the normalization of a normalized
\* reference is that normalized reference: what the first application
\* produced, and did not pass through, begins with data:, and every
\* further application returns what the first returned.
C24_Idempotent ==
    /\ norm_out # <<>> =>
          (norm_out[1] = norm_in \/ StartsWith(norm_out[1], StrData))
    /\ \A i \in 2..Len(norm_out) : norm_out[i] = norm_out[1]

\* photo.png, a file, has been normalized to a data URL, and that data URL
\* to itself
C24_Witness ==
    /\ Len(norm_out) >= 2
    /\ norm_in = RefPhoto
    /\ IsFile(disk, norm_in)
    /\ norm_out[1] # norm_in
    /\ norm_out[2] = norm_out[1]

====
